---- MODULE Spec2Model ----
(***************************************************************************)
(* A model of app.py: the Streamlit page that processes uploaded supporter *)
(* videos, asks an LLM for a trailer plan and renders the plan.            *)
(*                                                                         *)
(* The state is the session dictionary (processed_videos, trailer_plan,    *)
(* reasoning), the file-uploader widget, and the position of the script    *)
(* run that a button click starts.  Every external collaborator (moviepy,  *)
(* the transcription API, OpenCV, the vision API, the chat API, ffmpeg) is  *)
(* an environment whose outcome is chosen nondeterministically at the call. *)
(* "trace" is the history of the current script run: the external calls it *)
(* issued with what they returned, the appends to processed_videos, and    *)
(* the messages the handler displayed, in program order.                   *)
(***************************************************************************)
EXTENDS Integers, Sequences, FiniteSets, TLC

VARIABLES
    uploaded_files,    \* st.file_uploader value: the uploaded file names, in upload order
    processed_videos,  \* st.session_state.processed_videos
    trailer_plan,      \* st.session_state.trailer_plan
    reasoning,         \* st.session_state.reasoning
    petition_text,     \* st.session_state.petition_text ("absent": no such key)
    videos_data,       \* the payload of the last chat request (history of line 1152)
    click,             \* the button whose st.button(...) is True in the current run
    pc,                \* position of the current script run
    i,                 \* loop index of the running handler (1-based)
    segment_paths,     \* create_trailer_from_plan's segment_paths (segment indices)
    result,            \* what create_trailer_from_plan returned to the handler
    exc,               \* the operation whose exception reached the script's top level
    trace,             \* history of the current run: <<op, argument, outcome>>
    call               \* a helper function applied on its own: arguments and return

vars == <<uploaded_files, processed_videos, trailer_plan, reasoning, petition_text,
          videos_data, click, pc, i, segment_paths, result, exc, trace, call>>

\* The session dictionary (scene_timestamps, set at line 977, is never used).
session == <<processed_videos, trailer_plan, reasoning, petition_text>>

(***************************************************************************)
(* Bounds of the model.                                                    *)
(***************************************************************************)
MaxFiles == 2

FileNames == <<"a.mp4", "b.mp4", "c.mp4", "d.mp4">>

RECURSIVE SeqsUpTo(_, _)
SeqsUpTo(S, n) ==
    IF n = 0 THEN {<<>>}
    ELSE LET shorter == SeqsUpTo(S, n - 1)
         IN  shorter \cup {Append(s, x) : s \in shorter, x \in S}

\* The uploader holds any selection of the first MaxFiles files of FileNames,
\* in that order.
UploadLists ==
    LET picks == {s \in SeqsUpTo(1..MaxFiles, MaxFiles) :
                     \A k \in 1..(Len(s) - 1) : s[k] < s[k + 1]}
    IN  {[k \in 1..Len(s) |-> FileNames[s[k]]] : s \in picks}

(***************************************************************************)
(* Python values.                                                          *)
(***************************************************************************)
NoExc == "none"

\* A JSON value that is an element of a list or stands alone: a dictionary
\* (isdict) with the keys the renderer reads, or a non-dictionary value.  A
\* key the dictionary lacks has type "absent"; video_id and duration then
\* hold what .get() defaults to.
VideoSeg(id, txt) ==
    [isdict |-> TRUE, type |-> "video", video_id |-> id, duration |-> 8, text |-> txt]
TransitionSeg(txt) ==
    [isdict |-> TRUE, type |-> "transition", video_id |-> 0, duration |-> 3, text |-> txt]
\* A dictionary with none of the keys, as {"note": "..."}.
BareDict ==
    [isdict |-> TRUE, type |-> "absent", video_id |-> 0, duration |-> 5, text |-> ""]
\* A string, a number, null.
Scalar ==
    [isdict |-> FALSE, type |-> "absent", video_id |-> 0, duration |-> 0, text |-> ""]

\* A JSON document as json.loads sees it.  shape "invalid" is a JSONDecodeError,
\* "absent" the lack of a fenced block; "segments" is an object whose
\* "segments" value is the list items, "segments_scalar" an object whose
\* "segments" value is a number or null, "list" the list items, "dict" an
\* object without "segments" and "scalar" any other value, both held in self.
NoItems == <<>>
Invalid == [shape |-> "invalid", items |-> NoItems, self |-> Scalar]
Absent  == [shape |-> "absent",  items |-> NoItems, self |-> Scalar]

SegmentsObj(items) == [shape |-> "segments", items |-> items, self |-> BareDict]
JsonList(items)    == [shape |-> "list", items |-> items, self |-> Scalar]
SegmentsScalar     == [shape |-> "segments_scalar", items |-> NoItems, self |-> BareDict]
JsonDict(d)        == [shape |-> "dict", items |-> NoItems, self |-> d]
JsonScalar         == [shape |-> "scalar", items |-> NoItems, self |-> Scalar]

\* A line of a plan written as structured text, 'Segment 2: Video 1, 8
\* seconds' with its 'Text:' line: video is the N of 'Video N' (0 when the
\* line names no video), seconds the M of 'M seconds'.
PlanLine(video, seconds, txt) == [video |-> video, seconds |-> seconds, text |-> txt]

\* A text: what json.loads makes of the whole of it, what its first ```json
\* fenced block holds, the structured-text lines it is made of, and the
\* literal it is known by.  lit = "" is the empty string, lit = "None" is
\* Python's None.
PlanText(lit, whole, block) ==
    [lit |-> lit, whole |-> whole, block |-> block, lines |-> <<>>]

\* A text of structured lines: no JSON, no fenced block.
StructuredText(lines) ==
    [lit |-> "structured plan", whole |-> Invalid, block |-> Absent, lines |-> lines]

PyNone == PlanText("None", Invalid, Absent)

Truthy(text) == text.lit \notin {"None", ""}


(***************************************************************************)
(* The processing functions (lines 772-963).  Each takes the outcome of    *)
(* the environment it runs in and gives what the call does: the value it   *)
(* returns, or raised = TRUE when an exception leaves the function.        *)
(***************************************************************************)
Returns(v) == [ret |-> v, raised |-> FALSE]
Raises     == [ret |-> "raised", raised |-> TRUE]

\* "raise": VideoFileClip or write_audiofile raises.  The import of line 775
\* is taken to succeed, so filename is bound when the guard of line 797 runs.
AudioEnv == {"ok", "no_audio", "empty_file", "raise"}

extract_audio_from_video(env) ==
    CASE env = "ok"           -> Returns("audio_path")
      [] env = "no_audio"     -> Returns("None")
      [] env = "empty_file"   -> Returns("None")
      [] env = "raise"        -> Returns("None")

\* "empty": process_transcription finds no block of three lines and joins
\* nothing.  "raise": open() or the transcription request raises; the
\* function has no exception guard.
TranscribeEnv == {"ok", "empty", "raise"}

transcribe_audio(env) ==
    CASE env = "ok"    -> Returns("transcript")
      [] env = "empty" -> Returns("")
      [] env = "raise" -> Raises

\* save_transcription opens and writes a file with no guard.
SaveEnv == {"ok", "raise"}

save_transcription(env) ==
    IF env = "ok" THEN Returns("transcript_path") ELSE Raises

FrameEnv == {"ok", "no_frame", "raise"}

capture_first_frame(env) ==
    CASE env = "ok"       -> Returns("screenshot_path")
      [] env = "no_frame" -> Returns("None")
      [] env = "raise"    -> Returns("None")

\* The analysis is known by its main_message; "parsed" is the object the
\* vision API sent.
AnalysisEnv == {"ok", "status", "no_choices", "bad_json", "raise"}

analyze_video_content(env) ==
    CASE env = "ok"         -> Returns("parsed")
      [] env = "status"     -> Returns("Error analyzing content")
      [] env = "no_choices" -> Returns("Video analysis unavailable")
      [] env = "bad_json"   -> Returns("Video analysis unavailable")
      [] env = "raise"      -> Returns("Error analyzing content")

FallbackAnalyses == {"Error analyzing content", "Video analysis unavailable"}

\* Python truthiness of what the functions return (lines 1072, 1079, 1090).
Falsy(v) == v \in {"None", ""}

(***************************************************************************)
(* The script run.                                                         *)
(***************************************************************************)
Ev(op, arg, out) == <<op, arg, out>>

NoRun == <<>>

\* No helper function is being applied on its own.
NoCall == [fn |-> "none"]

Init ==
    /\ uploaded_files = <<>>
    /\ processed_videos = <<>>       \* line 975
    /\ trailer_plan = PyNone         \* line 979
    /\ reasoning = "None"            \* line 981
    /\ petition_text = "absent"
    /\ videos_data = <<>>
    /\ click = "none"
    /\ pc = "idle"
    /\ i = 0
    /\ segment_paths = <<>>
    /\ result = "None"
    /\ exc = NoExc
    /\ trace = NoRun
    /\ call = NoCall

\* The user changes the uploader's files; the rerun that follows clicks nothing.
Upload ==
    /\ pc = "idle"
    /\ \E files \in UploadLists \ {uploaded_files} : uploaded_files' = files
    /\ UNCHANGED <<call, processed_videos, trailer_plan, reasoning, petition_text, videos_data,
                   click, pc, i, segment_paths, result, exc, trace>>

\* The texts the model lets the user type into the petition text area.
PetitionTexts == {"", "Save the park"}

\* Lines 992-999: the user edits the text area; the rerun that follows clicks
\* nothing and stores a non-empty text in the session.
EditPetition ==
    /\ pc = "idle"
    /\ \E text \in PetitionTexts :
         petition_text' = IF text # "" THEN text ELSE petition_text
    /\ UNCHANGED <<call, uploaded_files, processed_videos, trailer_plan, reasoning, videos_data,
                   click, pc, i, segment_paths, result, exc, trace>>

\* The script run returns: its locals are gone and the page waits for the user.
EndRun ==
    /\ pc = "end"
    /\ pc' = "idle"
    /\ click' = "none"
    /\ i' = 0
    /\ segment_paths' = <<>>
    /\ result' = "None"
    /\ exc' = NoExc
    /\ trace' = NoRun
    /\ UNCHANGED <<call, uploaded_files, processed_videos, trailer_plan, reasoning,
                   petition_text, videos_data>>

\* An exception no guard caught ends the script run where it is.
Abort(op, tr) ==
    /\ exc' = op
    /\ trace' = tr
    /\ pc' = "end"
    /\ UNCHANGED i

(***************************************************************************)
(* Process All Videos (lines 1054-1113).                                   *)
(***************************************************************************)
\* Line 1059 left out: the list of the earlier click is kept.
ClearedVideos_Keep(old) == old

\* Line 1059.
ClearedVideos(old) == <<>>

\* The loop body with a second attempt of a step that returned nothing.
NextStep_Retry(step, ret) ==
    CASE step = "extract_audio" -> IF Falsy(ret) THEN "extract_audio" ELSE "transcribe"
      [] step = "transcribe"    -> IF Falsy(ret) THEN "transcribe" ELSE "capture_frame"
      [] step = "capture_frame" -> IF Falsy(ret) THEN "capture_frame" ELSE "analyze"
      [] step = "analyze"       -> "append"

\* The loop body with the first frame captured before the transcription.
NextStep_FrameFirst(step, ret) ==
    CASE step = "extract_audio" -> IF Falsy(ret) THEN "continue" ELSE "capture_frame"
      [] step = "capture_frame" -> IF Falsy(ret) THEN "continue" ELSE "transcribe"
      [] step = "transcribe"    -> IF Falsy(ret) THEN "continue" ELSE "analyze"
      [] step = "analyze"       -> "append"

\* The body of the loop at line 1064: the position after `step` returned
\* `ret`; "continue" is the continue statement, "append" lines 1098-1104.
NextStep(step, ret) ==
    CASE step = "extract_audio" -> IF Falsy(ret) THEN "continue" ELSE "transcribe"
      [] step = "transcribe"    -> IF Falsy(ret) THEN "continue" ELSE "capture_frame"
      [] step = "capture_frame" -> IF Falsy(ret) THEN "continue" ELSE "analyze"
      [] step = "analyze"       -> "append"

\* for i, uploaded_file in enumerate(uploaded_files): the position once file
\* k is done with.
LoopNext(k) == IF k < Len(uploaded_files) THEN "extract_audio" ELSE "summary"

FailureMessage(step) ==
    CASE step = "extract_audio" -> "Failed to extract audio from"
      [] step = "transcribe"    -> "Failed to transcribe audio from"
      [] step = "capture_frame" -> "Failed to capture screenshot from"

\* One step of the loop body on file i: the call returned r.
LoopStep(step, op, r) ==
    LET called == Append(trace, Ev(op, i, r.ret))
        next   == NextStep(step, r.ret)
    IN  IF r.raised THEN Abort(op, called) /\ UNCHANGED processed_videos
        ELSE CASE next = "continue" ->
                    /\ trace' = Append(called, Ev("st.error", i, FailureMessage(step)))
                    /\ i' = i + 1
                    /\ pc' = LoopNext(i)
                    /\ UNCHANGED <<processed_videos, exc>>
               [] next = "append" ->
                    /\ processed_videos' = Append(processed_videos,
                           [name |-> uploaded_files[i], analysis |-> r.ret])
                    /\ trace' = Append(called,
                           Ev("processed_videos.append", i, uploaded_files[i]))
                    /\ i' = i + 1
                    /\ pc' = LoopNext(i)
                    /\ UNCHANGED exc
               [] OTHER ->
                    /\ trace' = called
                    /\ pc' = next
                    /\ UNCHANGED <<processed_videos, i, exc>>

ClickProcess ==
    /\ pc = "idle"
    /\ uploaded_files # <<>>                       \* line 1037
    /\ click' = "process"
    /\ \E openai_client \in BOOLEAN :              \* lines 1001-1007
         IF ~openai_client
         THEN /\ trace' = <<Ev("st.error", 0, "Please check your OpenAI API key")>>
              /\ pc' = "end"
              /\ UNCHANGED <<processed_videos, i>>
         ELSE /\ processed_videos' = ClearedVideos(processed_videos)
              /\ i' = 1
              /\ pc' = "extract_audio"
              /\ trace' = NoRun
    /\ UNCHANGED <<call, uploaded_files, trailer_plan, reasoning, petition_text, videos_data,
                   segment_paths, result, exc>>

ProcessFrame == <<call, uploaded_files, trailer_plan, reasoning, petition_text, videos_data,
                  click, segment_paths, result>>

ExtractAudio ==
    /\ pc = "extract_audio"
    /\ \E env \in AudioEnv :
         LoopStep("extract_audio", "extract_audio_from_video",
                  extract_audio_from_video(env))
    /\ UNCHANGED ProcessFrame

\* Lines 1077-1085: the transcription, its test, and the save of a
\* transcript that passed the test.
Transcribe ==
    /\ pc = "transcribe"
    /\ \E env \in TranscribeEnv, senv \in SaveEnv :
         LET r == transcribe_audio(env)
         IN  IF ~r.raised /\ ~Falsy(r.ret) /\ save_transcription(senv).raised
             THEN /\ Abort("save_transcription",
                           Append(trace, Ev("transcribe_audio", i, r.ret)))
                  /\ UNCHANGED processed_videos
             ELSE LoopStep("transcribe", "transcribe_audio", r)
    /\ UNCHANGED ProcessFrame

CaptureFrame ==
    /\ pc = "capture_frame"
    /\ \E env \in FrameEnv :
         LoopStep("capture_frame", "capture_first_frame", capture_first_frame(env))
    /\ UNCHANGED ProcessFrame

Analyze ==
    /\ pc = "analyze"
    /\ \E env \in AnalysisEnv :
         LoopStep("analyze", "analyze_video_content", analyze_video_content(env))
    /\ UNCHANGED ProcessFrame

\* Lines 1109-1113.
Summary ==
    /\ pc = "summary"
    /\ trace' = trace \o
         << Ev("status_text", Len(uploaded_files), "Processed N videos successfully!"),
            Ev("st.success", Len(processed_videos), "Processed N videos.") >>
    /\ pc' = "end"
    /\ UNCHANGED <<processed_videos, i, exc>>
    /\ UNCHANGED ProcessFrame

(***************************************************************************)
(* Generate Trailer Plan (lines 101-202, 1136-1156).                       *)
(***************************************************************************)
FailedPlan == PlanText("Failed to generate trailer plan", Invalid, Absent)

\* The texts the model lets the LLM answer with.
PlanA == PlanText("json plan",
                  SegmentsObj(<<VideoSeg(1, "Our community"), TransitionSeg("Join")>>),
                  Absent)
PlanB == PlanText("fenced plan", Invalid, JsonList(<<VideoSeg(2, "")>>))
PlanC == PlanText("prose plan", Invalid, Absent)
EmptyText == PlanText("", Invalid, Absent)

\* A reply of the chat API: the request raised, or came back with a status;
\* a 200 reply's content holds the marker "PART 2:" or not, and body is the
\* stripped text after the marker (the whole content when there is none).
ChatReply(status, marker, body) == [status |-> status, marker |-> marker, body |-> body]

ChatReplies ==
    { ChatReply("raise", FALSE, EmptyText),
      ChatReply("500", FALSE, EmptyText),
      ChatReply("200", TRUE, PlanA),
      ChatReply("200", TRUE, PlanB),
      ChatReply("200", FALSE, PlanC),
      ChatReply("200", TRUE, EmptyText) }

generate_trailer_plan(reply) ==
    CASE reply.status = "raise" ->
            [plan |-> FailedPlan, reasoning |-> "Error: exception"]
      [] reply.status # "200" ->
            [plan |-> FailedPlan, reasoning |-> "Error: API call failed with status code"]
      [] OTHER ->
            IF reply.marker
            THEN [plan |-> reply.body, reasoning |-> "PART 1 text"]
            ELSE [plan |-> reply.body,
                  reasoning |-> "Claude's reasoning could not be separated from the plan."]

\* Lines 1142-1149; the transcript and the analysis travel with the name.
VideosData(videos) == [k \in 1..Len(videos) |-> [id |-> k, name |-> videos[k].name]]

\* The button is drawn whatever processed_videos holds (line 1136 is outside
\* the else of line 1121).
ClickGenerate ==
    /\ pc = "idle"
    /\ click' = "generate"
    /\ pc' = "end"
    /\ \E secret \in BOOLEAN, reply \in ChatReplies :     \* line 1137
         IF ~secret
         THEN /\ trace' = <<Ev("st.error", 0, "Please add your Anthropic API key")>>
              /\ UNCHANGED <<trailer_plan, reasoning, videos_data>>
         ELSE LET out == generate_trailer_plan(reply)
              IN  /\ videos_data' = VideosData(processed_videos)
                  /\ trace' = <<Ev("requests.post messages", 0, reply.status)>>
                  /\ trailer_plan' = out.plan
                  /\ reasoning' = out.reasoning
    /\ UNCHANGED <<call, uploaded_files, processed_videos, petition_text, i, segment_paths,
                   result, exc>>

(***************************************************************************)
(* Create Trailer (lines 448-496, 599-730, 1159-1179).                     *)
(***************************************************************************)
\* Lines 484-488.
FailedToParse ==
    [isdict |-> TRUE, type |-> "transition", video_id |-> 0, duration |-> 10,
     text |-> "Failed to parse plan. Please check the Claude reasoning tab for details."]

\* What parse_claude_plan returns: a list of items, or a value that is no list.
PyList(items) == [islist |-> TRUE, items |-> items]
NotAList      == [islist |-> FALSE, items |-> NoItems]

\* Lines 454-460 and 469-475.
FromJson(doc) ==
    CASE doc.shape = "segments"        -> PyList(doc.items)
      [] doc.shape = "segments_scalar" -> NotAList
      [] doc.shape = "list"            -> PyList(doc.items)
      [] OTHER                         -> PyList(<<doc.self>>)

\* The parser with the fenced block tried before the whole text.
parse_claude_plan_BlockFirst(text) ==
    IF text.block.shape \notin {"absent", "invalid"}
    THEN FromJson(text.block)
    ELSE IF text.whole.shape # "invalid"
         THEN FromJson(text.whole)
         ELSE PyList(<<FailedToParse>>)

parse_claude_plan(text) ==
    IF text.whole.shape # "invalid"
    THEN FromJson(text.whole)
    ELSE IF text.block.shape \notin {"absent", "invalid"}
         THEN FromJson(text.block)
         ELSE PyList(<<FailedToParse>>)

\* Lines 611-612: enumerate(segments) and segment.get raise on a value
\* that is no list and on an element that is no dictionary.
LoopRaises(segments) ==
    \/ ~segments.islist
    \/ \E k \in DOMAIN segments.items : ~segments.items[k].isdict

\* segment.get("type", "video")
GetType(segment) == IF segment.type = "absent" THEN "video" ELSE segment.type

Min(a, b) == IF a < b THEN a ELSE b

\* The index into videos with the ids of the plan taken as they come.
VideoIndex_NoShift(video_id, n) ==
    IF n > 0 THEN Min(video_id, n - 1) ELSE 0

\* Lines 615-621: the index into videos, as Python computes it.
VideoIndex(video_id, n) ==
    LET zero_based == IF video_id > 0 THEN video_id - 1 ELSE video_id
    IN  IF n > 0 THEN Min(zero_based, n - 1) ELSE 0

\* videos[idx] raises IndexError outside -n..n-1.
IndexError(idx, n) == idx < -n \/ idx > n - 1

\* videos[idx] inside that range: a negative idx counts from the end.
Subscript(videos, idx) ==
    IF idx >= 0 THEN videos[idx + 1] ELSE videos[Len(videos) + idx + 1]

OverlayEnv == {"ok", "no_file", "probe_raise"}

\* Lines 18-99; k is the segment.
create_text_overlay(env, k) ==
    CASE env = "probe_raise" ->
            [ret |-> "temp_path", events |-> <<Ev("ffprobe", k, "raised")>>]
      [] env = "ok" ->
            [ret |-> "overlay_path",
             events |-> <<Ev("ffprobe", k, "ok"), Ev("ffmpeg drawtext", k, "ok")>>]
      [] env = "no_file" ->
            [ret |-> "temp_path",
             events |-> <<Ev("ffprobe", k, "ok"), Ev("ffmpeg drawtext", k, "no_file")>>]

\* "bad_start": the start time does not parse (lines 214-218).
ExtractEnv == {"bad_start", "ok", "no_file"}

\* Lines 205-242.
create_trailer_segment(text, env, oenv, k) ==
    CASE env = "bad_start" -> [ret |-> "None", events |-> <<>>]
      [] env = "no_file"   ->
            [ret |-> "None", events |-> <<Ev("ffmpeg extract", k, "no_file")>>]
      [] env = "ok" ->
            IF text # ""
            THEN LET o == create_text_overlay(oenv, k)
                 IN  [ret |-> o.ret,
                      events |-> <<Ev("ffmpeg extract", k, "ok")>> \o o.events]
            ELSE [ret |-> "segment_path", events |-> <<Ev("ffmpeg extract", k, "ok")>>]

SlideEnv == {"ok", "no_file", "raise"}

\* Lines 244-315.
create_transition_slide(env, k) ==
    CASE env = "ok"      -> [ret |-> "transition_path",
                             events |-> <<Ev("write_videofile slide", k, "ok")>>]
      [] env = "no_file" -> [ret |-> "None",
                             events |-> <<Ev("write_videofile slide", k, "no_file")>>]
      [] env = "raise"   -> [ret |-> "None",
                             events |-> <<Ev("write_videofile slide", k, "raised")>>]

\* The button exists only under line 1159.
CreateOffered == Truthy(trailer_plan)

CreateFrame == <<call, uploaded_files, processed_videos, trailer_plan, reasoning,
                 petition_text, videos_data, click, exc>>

ClickCreate ==
    /\ pc = "idle"
    /\ CreateOffered
    /\ click' = "create"
    /\ i' = 1
    /\ pc' = IF parse_claude_plan(trailer_plan) = PyList(<<>>)
             THEN "combine" ELSE "segments"
    /\ trace' = NoRun
    /\ UNCHANGED <<call, uploaded_files, processed_videos, trailer_plan, reasoning,
                   petition_text, videos_data, segment_paths, result, exc>>

\* The guard of lines 728-730 caught an exception.
Caught(tr) ==
    /\ trace' = Append(tr, Ev("st.error", 0, "Error creating trailer"))
    /\ result' = "None"
    /\ pc' = "show"
    /\ UNCHANGED <<i, segment_paths>>

\* The loop body at line 611 ran on segment i and got `made`.
Rendered(made) ==
    /\ trace' = trace \o made.events
    /\ segment_paths' = IF Falsy(made.ret) THEN segment_paths
                        ELSE Append(segment_paths, i)
    /\ i' = i + 1
    /\ pc' = IF i < Len(parse_claude_plan(trailer_plan).items)
             THEN "segments" ELSE "combine"
    /\ UNCHANGED result

Nothing == [ret |-> "None", events |-> <<>>]

\* Lines 621-632: segment k reads video_info and is cut from it.
CutFrom(video_info, made, k) ==
    [ret |-> made.ret, events |-> <<Ev("video_info", k, video_info.name)>> \o made.events]

RenderSegment ==
    /\ pc = "segments"
    /\ LET segments == parse_claude_plan(trailer_plan)
           segment == segments.items[i]
           n == Len(processed_videos)
       IN  IF ~segments.islist \/ ~segment.isdict THEN Caught(trace)
           ELSE CASE GetType(segment) = "video" ->
                       IF n = 0 THEN Rendered(Nothing)
                       ELSE IF IndexError(VideoIndex(segment.video_id, n), n)
                            THEN Caught(trace)
                            ELSE \E env \in ExtractEnv, oenv \in OverlayEnv :
                                   Rendered(CutFrom(
                                       Subscript(processed_videos,
                                                 VideoIndex(segment.video_id, n)),
                                       create_trailer_segment(segment.text, env, oenv, i),
                                       i))
                  [] GetType(segment) = "transition" ->
                       \E env \in SlideEnv : Rendered(create_transition_slide(env, i))
                  [] OTHER -> Rendered(Nothing)
    /\ UNCHANGED CreateFrame

\* A start_time_str: "h:m:s" and "seconds" ("12") parse to `seconds`; "m:s"
\* and "d:h:m:s" have two and four parts, "h:m:x" and "words" hold no
\* number, and "number" is an int in place of a string.
StartTime(form, seconds) == [form |-> form, seconds |-> seconds]

\* Lines 521-525 bind start_seconds.
Parses(start_time_str) == start_time_str.form \in {"h:m:s", "seconds"}

\* A line of a transcript: "stamped" is '[H:MM:SS] text', "short_stamp" is
\* '[MM:SS] text', "plain" starts with no bracket.
TranscriptLine(form, seconds, txt) == [form |-> form, seconds |-> seconds, text |-> txt]

\* Lines 530-543 from line k on: the texts and timestamps collected, or
\* the ValueError of line 537 on a timestamp of two parts.
RECURSIVE Collect(_, _, _, _)
Collect(lines, k, start_seconds, end_seconds) ==
    IF k > Len(lines) THEN [raised |-> FALSE, texts |-> <<>>, stamps |-> {}]
    ELSE IF lines[k].form = "short_stamp"
         THEN [raised |-> TRUE, texts |-> <<>>, stamps |-> {}]
         ELSE LET rest == Collect(lines, k + 1, start_seconds, end_seconds)
                  within == /\ lines[k].form = "stamped"
                            /\ start_seconds <= lines[k].seconds
                            /\ lines[k].seconds <= end_seconds
              IN  IF within /\ ~rest.raised
                  THEN [raised |-> FALSE,
                        texts |-> <<lines[k].text>> \o rest.texts,
                        stamps |-> {lines[k].seconds} \cup rest.stamps]
                  ELSE rest

SetMin(S) == CHOOSE x \in S : \A y \in S : x <= y
SetMax(S) == CHOOSE x \in S : \A y \in S : y <= x

\* Lines 512-561.  text is the list that ' '.join makes a string of.  When
\* the start time does not parse, the handler of line 555 reads
\* start_seconds, which was never bound, and raises UnboundLocalError.
extract_segment_from_transcript(transcript, start_time_str, duration) ==
    IF ~Parses(start_time_str)
    THEN [raised |-> TRUE, text |-> <<>>, actual_start |-> 0, actual_end |-> 0]
    ELSE LET start_seconds == start_time_str.seconds
             end_seconds == start_seconds + duration
             found == Collect(transcript, 1, start_seconds, end_seconds)
         IN  IF found.raised
             THEN [raised |-> FALSE, text |-> <<>>,
                   actual_start |-> start_seconds, actual_end |-> end_seconds]
             ELSE [raised |-> FALSE, text |-> found.texts,
                   actual_start |-> IF found.stamps # {} THEN SetMin(found.stamps)
                                    ELSE start_seconds,
                   actual_end |-> IF found.stamps # {} THEN SetMax(found.stamps)
                                  ELSE end_seconds]

\* "report_raise": the report of lines 676-723 raises in its turn.
ConcatEnv == {"ok", "no_file", "raise", "report_raise"}

\* Lines 646-730: what create_trailer_from_plan returns.
Combined(env) ==
    CASE env = "ok"           -> "final_trailer.mp4"
      [] env = "no_file"      -> "None"
      [] env = "raise"        -> "trailer_plan_report.md"
      [] env = "report_raise" -> "None"

Combine ==
    /\ pc = "combine"
    /\ IF segment_paths = <<>>
       THEN /\ result' = "None"
            /\ trace' = Append(trace, Ev("st.error", 0, "No segments were created"))
       ELSE \E env \in ConcatEnv :
              /\ result' = Combined(env)
              /\ trace' = Append(trace, Ev("concatenate_videoclips", 0, env))
    /\ pc' = "show"
    /\ UNCHANGED <<i, segment_paths>>
    /\ UNCHANGED CreateFrame

\* Lines 1175-1179.
Shown(res) ==
    IF ~Falsy(res)
    THEN <<Ev("st.success", 0, "Trailer created successfully!"), Ev("st.video", 0, res)>>
    ELSE <<Ev("st.error", 0, "Failed to create trailer")>>

\* The handler of lines 1175-1179 if it dropped the plan it has rendered.
ShowResult_DropsPlan ==
    /\ pc = "show"
    /\ trace' = trace \o Shown(result)
    /\ pc' = "end"
    /\ trailer_plan' = PyNone
    /\ UNCHANGED <<call, i, segment_paths, result, uploaded_files, processed_videos,
                   reasoning, petition_text, videos_data, click, exc>>

ShowResult ==
    /\ pc = "show"
    /\ trace' = trace \o Shown(result)
    /\ pc' = "end"
    /\ UNCHANGED <<i, segment_paths, result>>
    /\ UNCHANGED CreateFrame

Next ==
    \/ Upload
    \/ EditPetition
    \/ ClickProcess
    \/ ExtractAudio
    \/ Transcribe
    \/ CaptureFrame
    \/ Analyze
    \/ Summary
    \/ ClickGenerate
    \/ ClickCreate
    \/ RenderSegment
    \/ Combine
    \/ ShowResult
    \/ EndRun

Spec == Init /\ [][Next]_vars

(***************************************************************************)
(* The helper functions applied on their own.  The arguments are drawn     *)
(* from bounded sets; one application computes the return value.           *)
(***************************************************************************)
MaxVideos == 3
MaxId == 4
MaxLines == 2

Calling(fn, arg) == [fn |-> fn, arg |-> arg, done |-> FALSE, ret |-> "pending"]

\* len(videos) and the video_id of a segment.
VideoIndexArgs == [video_id : (0 - MaxId)..MaxId, n : 0..MaxVideos]

\* The JSON documents a text or a fenced block can hold.
JsonDocs ==
    { SegmentsObj(<<VideoSeg(1, "Our community"), TransitionSeg("Join")>>),
      SegmentsObj(<<>>),
      SegmentsScalar,
      JsonList(<<VideoSeg(2, "")>>),
      JsonList(<<Scalar, Scalar>>),
      JsonDict(TransitionSeg("Join")),
      JsonDict(BareDict),
      JsonScalar }

StructuredTexts ==
    { StructuredText(<<PlanLine(1, 8, "Our community")>>),
      StructuredText(<<PlanLine(2, 5, ""), PlanLine(0, 3, "Join")>>) }

\* A valid JSON text holds a fenced block when one of its strings does.
PlanTexts ==
    { PlanText("reply", whole, block) :
        whole \in JsonDocs \cup {Invalid}, block \in JsonDocs \cup {Invalid, Absent} }
    \cup StructuredTexts

ParseArgs == [text : PlanTexts]

StartTimes ==
    { StartTime("h:m:s", 0), StartTime("h:m:s", 10), StartTime("seconds", 10),
      StartTime("m:s", 0), StartTime("d:h:m:s", 0), StartTime("h:m:x", 0),
      StartTime("words", 0), StartTime("number", 0) }

TranscriptLines ==
    { TranscriptLine("stamped", 5, "clean water"),
      TranscriptLine("stamped", 12, "sign today"),
      TranscriptLine("short_stamp", 0, "thank you"),
      TranscriptLine("plain", 0, "Transcript") }

Durations == {5, 10}

ExtractArgs ==
    [transcript : SeqsUpTo(TranscriptLines, MaxLines),
     start_time_str : StartTimes,
     duration : Durations]

FnInit ==
    /\ uploaded_files = <<>>
    /\ processed_videos = <<>>
    /\ trailer_plan = PyNone
    /\ reasoning = "None"
    /\ petition_text = "absent"
    /\ videos_data = <<>>
    /\ click = "none"
    /\ pc = "idle"
    /\ i = 0
    /\ segment_paths = <<>>
    /\ result = "None"
    /\ exc = NoExc
    /\ trace = NoRun
    /\ \/ \E arg \in VideoIndexArgs : call = Calling("VideoIndex", arg)
       \/ \E arg \in ParseArgs : call = Calling("parse_claude_plan", arg)
       \/ \E arg \in ExtractArgs : call = Calling("extract_segment_from_transcript", arg)

FnFrame == <<uploaded_files, processed_videos, trailer_plan, reasoning, petition_text,
             videos_data, click, pc, i, segment_paths, result, exc, trace>>

Returned(ret) ==
    /\ call' = [call EXCEPT !.done = TRUE, !.ret = ret]
    /\ UNCHANGED FnFrame

ApplyVideoIndex ==
    /\ call.fn = "VideoIndex"
    /\ ~call.done
    /\ Returned(VideoIndex(call.arg.video_id, call.arg.n))

ApplyParse ==
    /\ call.fn = "parse_claude_plan"
    /\ ~call.done
    /\ Returned(parse_claude_plan(call.arg.text))

ApplyExtract ==
    /\ call.fn = "extract_segment_from_transcript"
    /\ ~call.done
    /\ Returned(extract_segment_from_transcript(call.arg.transcript,
                                                call.arg.start_time_str,
                                                call.arg.duration))

FnNext ==
    \/ ApplyVideoIndex
    \/ ApplyParse
    \/ ApplyExtract

FnSpec == FnInit /\ [][FnNext]_vars

(***************************************************************************)
(* Reading the history of a run.                                           *)
(***************************************************************************)
Op(e)  == e[1]
Arg(e) == e[2]
Out(e) == e[3]

ProcessCalls == <<"extract_audio_from_video", "transcribe_audio",
                  "capture_first_frame", "analyze_video_content">>

ExternalCalls ==
    {ProcessCalls[k] : k \in 1..4} \cup
    {"requests.post messages", "ffmpeg extract", "ffprobe", "ffmpeg drawtext",
     "write_videofile slide", "concatenate_videoclips"}

\* The position of a processing call in the loop body (lines 1070-1095).
Rank(op) == CHOOSE k \in 1..4 : ProcessCalls[k] = op

Has(op, arg, out) == \E p \in DOMAIN trace : trace[p] = Ev(op, arg, out)

Called(op, arg) == \E p \in DOMAIN trace : Op(trace[p]) = op /\ Arg(trace[p]) = arg

\* What the call op made for file j returned in this run.
Ret(op, j) ==
    IF Called(op, j)
    THEN Out(trace[CHOOSE p \in DOMAIN trace : Op(trace[p]) = op /\ Arg(trace[p]) = j])
    ELSE "not called"

Produced(op, j) == Ret(op, j) \notin {"not called", "raised", "None", ""}

\* The handler of Process All Videos ran to its last line (1113).
ProcessCompleted ==
    /\ click = "process"
    /\ pc = "end"
    /\ \E p \in DOMAIN trace : Op(trace[p]) = "st.success"

\* File j was appended or skipped.
Resolved(j, p) ==
    \/ Op(trace[p]) = "processed_videos.append" /\ Arg(trace[p]) = j
    \/ Op(trace[p]) = "st.error" /\ Arg(trace[p]) = j

\* The operations the error-handling pattern is stated for.
PipelineOperations ==
    {"extract_audio_from_video", "transcribe_audio", "capture_first_frame",
     "analyze_video_content", "generate_trailer_plan", "parse_claude_plan",
     "create_trailer_segment", "create_text_overlay", "create_transition_slide",
     "create_trailer_from_plan", "extract_segment_from_transcript",
     "get_video_duration"}

(***************************************************************************)
(* C1: every operation of the pipeline is wrapped in a broad exception     *)
(* guard, so whenever a step inside it fails it returns its sentinel and   *)
(* no exception propagates to its caller: no script run ever ends with an  *)
(* exception that left one of the operations.                              *)
(* Violated: transcribe_audio (lines 801-810) has no guard.                *)
(***************************************************************************)
C1_NoExceptionPropagates == exc \notin PipelineOperations

(***************************************************************************)
(* C2: there is no retry: within one click every external call (the four   *)
(* processing calls per uploaded video, the chat request, the extract,     *)
(* probe, overlay and slide command per plan segment, the concatenation)   *)
(* is issued at most once, so a failed call is never attempted again.      *)
(***************************************************************************)
C2_NoRetry ==
    \A p, q \in DOMAIN trace :
        ( /\ Op(trace[p]) \in ExternalCalls
          /\ Op(trace[p]) = Op(trace[q])
          /\ Arg(trace[p]) = Arg(trace[q]) ) => p = q

\* A click in which the audio extraction of the first file failed and the
\* click went on to the second file and to its end.
C2_Witness ==
    /\ ProcessCompleted
    /\ Has("extract_audio_from_video", 1, "None")
    /\ Called("extract_audio_from_video", 2)

(***************************************************************************)
(* C3: processing is strictly sequential: the calls of one Process All     *)
(* Videos click are issued file by file in upload order, for each file in  *)
(* the order audio extraction, transcription, first frame, analysis (an    *)
(* entry of the history is a call that has returned), and no call for file *)
(* j+1 is issued before file j was appended or skipped.                    *)
(***************************************************************************)
C3_Sequential ==
    click = "process" =>
        /\ \A p, q \in DOMAIN trace :
              ( /\ p < q
                /\ Op(trace[p]) \in ExternalCalls
                /\ Op(trace[q]) \in ExternalCalls ) =>
                  \/ Arg(trace[p]) < Arg(trace[q])
                  \/ /\ Arg(trace[p]) = Arg(trace[q])
                     /\ Rank(Op(trace[p])) < Rank(Op(trace[q]))
        /\ \A q \in DOMAIN trace :
              Op(trace[q]) \in ExternalCalls =>
                  /\ Arg(trace[q]) \in 1..Len(uploaded_files)
                  /\ \A j \in 1..(Arg(trace[q]) - 1) :
                        \E p \in 1..(q - 1) : Resolved(j, p)
        /\ \A p \in DOMAIN trace :
              Op(trace[p]) = "processed_videos.append" =>
                  Out(trace[p]) = uploaded_files[Arg(trace[p])]

\* Two files: the first went through all four steps, the second was skipped
\* at the transcription.
C3_Witness ==
    /\ ProcessCompleted
    /\ Called("analyze_video_content", 1)
    /\ Has("transcribe_audio", 2, "")
    /\ Len(processed_videos) = 1

\* What one step may change of the session, by the click whose run it is in.
KeysOfClicks ==
    /\ processed_videos' # processed_videos => click' = "process"
    /\ (trailer_plan' # trailer_plan \/ reasoning' # reasoning) =>
          /\ click' = "generate"
          /\ pc = "idle"
          /\ \E reply \in ChatReplies :
                /\ trailer_plan' = generate_trailer_plan(reply).plan
                /\ reasoning' = generate_trailer_plan(reply).reasoning
    /\ (click = "create" \/ click' = "create") =>
          UNCHANGED <<processed_videos, trailer_plan, reasoning>>

(***************************************************************************)
(* C4 (as amended): of the session's keys, processed_videos is written     *)
(* only in a run of Process All Videos; trailer_plan and reasoning are     *)
(* written only by the Generate Trailer Plan click, both in the same step  *)
(* and from one call of generate_trailer_plan; and a Create Trailer run    *)
(* leaves processed_videos, trailer_plan and reasoning unchanged whatever  *)
(* its outcome.  (The key petition_text is written outside any click.)     *)
(***************************************************************************)
C4_ClicksWriteTheirKeys == [][KeysOfClicks]_vars

\* The end of a Create Trailer run that rendered a plan of a session holding
\* videos, a plan, its reasoning and a petition text.
C4_Witness ==
    /\ click = "create"
    /\ pc = "end"
    /\ ~Falsy(result)
    /\ processed_videos # <<>>
    /\ reasoning = "PART 1 text"
    /\ petition_text # "absent"

(***************************************************************************)
(* C4 (as claimed): the session dictionary is changed only by button       *)
(* clicks and each click changes only its own keys: every step that        *)
(* changes a key of the session belongs to the run of a click, with        *)
(* processed_videos written only by Process All Videos, trailer_plan and   *)
(* reasoning only by Generate Trailer Plan (together), and nothing by      *)
(* Create Trailer.                                                         *)
(* Violated: editing the petition text area writes petition_text in a      *)
(* rerun that no button started (lines 998-999).                           *)
(***************************************************************************)
C4_OnlyClicksChangeSession ==
    [][ /\ session' # session => click' \in {"process", "generate", "create"}
        /\ processed_videos' # processed_videos => click' = "process"
        /\ (trailer_plan' # trailer_plan \/ reasoning' # reasoning) =>
              click' = "generate"
        /\ (click = "create" \/ click' = "create") => session' = session ]_vars

\* File j got through the three tests of lines 1072, 1079 and 1090.
Passed(j) ==
    /\ Produced("extract_audio_from_video", j)
    /\ Produced("transcribe_audio", j)
    /\ Produced("capture_first_frame", j)

\* The entries the returned values of the run call for, files 1..k.
RECURSIVE ExpectedVideos(_)
ExpectedVideos(k) ==
    IF k = 0 THEN <<>>
    ELSE IF Passed(k)
         THEN Append(ExpectedVideos(k - 1),
                     [name |-> uploaded_files[k],
                      analysis |-> Ret("analyze_video_content", k)])
         ELSE ExpectedVideos(k - 1)

(***************************************************************************)
(* C5: after a completed Process All Videos click (which needs the         *)
(* transcription client) processed_videos holds exactly one entry for each *)
(* uploaded file whose audio extraction, transcription and first-frame     *)
(* capture all produced a non-empty result, in upload order, and nothing   *)
(* else; a file whose analysis failed is kept, its entry carrying the      *)
(* fallback analysis; and the number in the st.success message of line     *)
(* 1113 is the length of processed_videos.                                 *)
(***************************************************************************)
C5_ProcessedVideosExact ==
    ProcessCompleted =>
        /\ processed_videos = ExpectedVideos(Len(uploaded_files))
        /\ \A p \in DOMAIN trace :
              Op(trace[p]) = "st.success" => Arg(trace[p]) = Len(processed_videos)

\* A completed click on two files in a session that already holds a plan:
\* the first file was skipped, the second kept with a fallback analysis.
C5_Witness ==
    /\ ProcessCompleted
    /\ Len(uploaded_files) = 2
    /\ ~Passed(1)
    /\ Passed(2)
    /\ Ret("analyze_video_content", 2) \in FallbackAnalyses
    /\ Len(processed_videos) = 1
    /\ Truthy(trailer_plan)

(***************************************************************************)
(* C6: the Create Trailer click shows 'Trailer created successfully!' and  *)
(* plays the result as a video only when create_trailer_from_plan produced *)
(* a non-empty final_trailer.mp4 in this click; in every other outcome it  *)
(* shows 'Failed to create trailer'.                                       *)
(* Violated: when the concatenation raises, the function returns the path  *)
(* of trailer_plan_report.md (line 723) and the handler reports success    *)
(* and hands the report to st.video.                                       *)
(***************************************************************************)
C6_SuccessOnlyForFinalTrailer ==
    (click = "create" /\ pc = "end") =>
        IF Has("concatenate_videoclips", 0, "ok")
        THEN /\ Has("st.success", 0, "Trailer created successfully!")
             /\ Has("st.video", 0, "final_trailer.mp4")
        ELSE /\ Has("st.error", 0, "Failed to create trailer")
             /\ ~Has("st.success", 0, "Trailer created successfully!")
             /\ \A p \in DOMAIN trace : Op(trace[p]) # "st.video"

(***************************************************************************)
(* C7: a trailer plan can be requested only after videos have been         *)
(* processed: wherever processed_videos is empty the tab shows the         *)
(* warning of line 1120 and Generate Trailer Plan cannot be taken, so      *)
(* trailer_plan is never set while processed_videos is empty.              *)
(* Violated: the button of line 1136 is outside the else branch of line    *)
(* 1121, so it is offered next to the warning.                             *)
(***************************************************************************)
C7_NoPlanWithoutVideos ==
    processed_videos = <<>> => trailer_plan = PyNone

(***************************************************************************)
(* C8: a failure of a processing step (audio extraction, transcription,    *)
(* first-frame capture) for one uploaded video skips only that video: in a *)
(* click that started processing, every uploaded file is taken up (its     *)
(* audio extraction is called) by the time the run ends, whatever happened *)
(* to the files before it, and what was appended before is kept.           *)
(* Violated: a step that fails by raising (transcribe_audio has no guard)  *)
(* ends the script run, and the files after it are never taken up.         *)
(***************************************************************************)
C8_FailureSkipsOnlyThatVideo ==
    ( /\ click = "process"
      /\ pc = "end"
      /\ ~Has("st.error", 0, "Please check your OpenAI API key")
      /\ exc # "save_transcription" ) =>
        \A j \in 1..Len(uploaded_files) : Called("extract_audio_from_video", j)

(***************************************************************************)
(* C9: when plan generation fails (non-200 status, or the request raises)  *)
(* no trailer can be rendered from the failure: with the failure text as   *)
(* trailer_plan, Create Trailer is not offered, or if taken produces no    *)
(* video file.                                                             *)
(* Violated: the failure text is a non-empty string, so the button is      *)
(* offered, and parse_claude_plan turns it into the 'Failed to parse plan' *)
(* slide, which is rendered and concatenated into final_trailer.mp4.       *)
(***************************************************************************)
C9_NoTrailerFromFailedPlan ==
    trailer_plan = FailedPlan =>
        \/ ~CreateOffered
        \/ ~(click = "create" /\ result = "final_trailer.mp4")

(***************************************************************************)
(* C10: in every session state between clicks in which trailer_plan is set *)
(* (to a plan the LLM made for a non-empty list of videos), the list the   *)
(* plan's video ids were assigned against is the current processed_videos; *)
(* so Create Trailer never renders a plan against a different list.        *)
(* Violated: Process All Videos replaces processed_videos (line 1059) and  *)
(* leaves trailer_plan in place.                                           *)
(***************************************************************************)
C10_PlanMatchesProcessedVideos ==
    ( /\ pc = "idle"
      /\ trailer_plan \notin {PyNone, FailedPlan}
      /\ videos_data # <<>> ) =>
        videos_data = VideosData(processed_videos)

(***************************************************************************)
(* C11: video ids round-trip.  While processed_videos is the list the plan *)
(* was generated for, with n entries, a video segment whose video_id is an *)
(* integer k in 1..n is cut from the k-th entry of processed_videos, the   *)
(* entry that was sent to the LLM with "id": k.                            *)
(***************************************************************************)
C11_VideoIdsRoundTrip ==
    ( /\ click = "create"
      /\ videos_data = VideosData(processed_videos) ) =>
        \A p \in DOMAIN trace :
            Op(trace[p]) = "video_info" =>
                LET k == parse_claude_plan(trailer_plan).items[Arg(trace[p])].video_id
                IN  k \in 1..Len(processed_videos) =>
                        /\ Out(trace[p]) = processed_videos[k].name
                        /\ \E d \in DOMAIN videos_data :
                               /\ videos_data[d].id = k
                               /\ videos_data[d].name = Out(trace[p])

\* The second of two processed videos, named by "video_id": 2, was read for
\* a segment of a plan generated for these two videos.
C11_Witness ==
    /\ click = "create"
    /\ Len(processed_videos) = 2
    /\ videos_data = VideosData(processed_videos)
    /\ \E p \in DOMAIN trace :
          /\ Op(trace[p]) = "video_info"
          /\ parse_claude_plan(trailer_plan).items[Arg(trace[p])].video_id = 2
          /\ Out(trace[p]) = processed_videos[2].name

(***************************************************************************)
(* C12: create_trailer_from_plan makes the video index lie in range: for a *)
(* non-empty videos of length n and every integer video_id, 0, negative    *)
(* and above n included, the index used on videos lies in 0..n-1.          *)
(* Violated: only the upper end is clamped (line 621).  A video_id of -1   *)
(* stays -1 and videos[-1] reads the last entry; below -n the subscript    *)
(* raises IndexError and the guard of line 728 ends the whole trailer.     *)
(***************************************************************************)
C12_IndexInRange ==
    ( /\ call.fn = "VideoIndex"
      /\ call.done
      /\ call.arg.n > 0 ) =>
        call.ret \in 0..(call.arg.n - 1)

\* The value json.loads gave is a JSON document, and `ret` is what the three
\* cases make of it: the "segments" value of an object that has one, the
\* list itself, or a list of the value alone.
IsJson(doc) == doc.shape \notin {"invalid", "absent"}

TakenFrom(ret, doc) ==
    /\ doc.shape = "segments" => ret.islist /\ ret.items = doc.items
    /\ doc.shape = "segments_scalar" => ~ret.islist
    /\ doc.shape = "list" => ret.islist /\ ret.items = doc.items
    /\ doc.shape \in {"dict", "scalar"} => ret.islist /\ ret.items = <<doc.self>>

LineType(line) == IF line.video > 0 THEN "video" ELSE "transition"

(***************************************************************************)
(* C14: a plan text that is not JSON and holds no JSON code block is       *)
(* parsed as structured text: its 'Segment' / 'Clip' / '- ' lines, with    *)
(* 'Video N', 'M seconds' and 'Text:' / 'Overlay:', become one segment per *)
(* line with the line's type, duration and overlay text, and these are the *)
(* segments Create Trailer renders.                                        *)
(* Violated: the structured-text parser is part of the first definition of *)
(* create_trailer_from_plan (lines 337-384), which the definition at line  *)
(* 599 replaces; parse_claude_plan announces 'Attempting to parse as text' *)
(* and returns the one 'Failed to parse plan' slide.                       *)
(***************************************************************************)
C14_StructuredTextParsed ==
    ( /\ call.fn = "parse_claude_plan"
      /\ call.done
      /\ ~IsJson(call.arg.text.whole)
      /\ call.arg.text.block = Absent
      /\ call.arg.text.lines # <<>> ) =>
        LET lines == call.arg.text.lines
        IN  /\ call.ret.islist
            /\ Len(call.ret.items) = Len(lines)
            /\ \A k \in DOMAIN lines :
                  /\ call.ret.items[k].type = LineType(lines[k])
                  /\ call.ret.items[k].duration = lines[k].seconds
                  /\ call.ret.items[k].text = lines[k].text

(***************************************************************************)
(* C15: for every plan text parse_claude_plan returns a list whose         *)
(* elements are all segment dictionaries, so that the segment loop of      *)
(* create_trailer_from_plan reads type, video_id and the other keys of     *)
(* every element without raising; also when the JSON is a scalar, a list   *)
(* of non-objects, or an object whose "segments" value is not a list.      *)
(* Violated: lines 455-460 hand on what json.loads gave.  A scalar is      *)
(* wrapped as it is, a list of strings is returned as it is, and a         *)
(* "segments" value that is a number is returned in place of a list; the   *)
(* loop of line 611 then raises on enumerate or on segment.get.            *)
(***************************************************************************)
C15_ListOfDictionaries ==
    (call.fn = "parse_claude_plan" /\ call.done) =>
        /\ call.ret.islist
        /\ \A k \in DOMAIN call.ret.items : call.ret.items[k].isdict
        /\ ~LoopRaises(call.ret)

(***************************************************************************)
(* C16: extract_segment_from_transcript never raises: for every transcript *)
(* and every start_time_str, well-formed, of fewer or more than three      *)
(* colon-separated parts, non-numeric, or a number in place of a string,   *)
(* it returns a dictionary with the keys text, actual_start and            *)
(* actual_end, and text is empty when the start time cannot be parsed.     *)
(* Violated: when the start time does not parse, the handler of lines      *)
(* 554-561 builds its dictionary from start_seconds and end_seconds, which *)
(* were never bound, and raises UnboundLocalError.                         *)
(***************************************************************************)
C16_ExtractNeverRaises ==
    (call.fn = "extract_segment_from_transcript" /\ call.done) =>
        /\ ~call.ret.raised
        /\ ~Parses(call.arg.start_time_str) => call.ret.text = <<>>

====
